---- MODULE Spec2Model ----
(***************************************************************************)
(* Festivly prompt engine (src/src/lib/prompt-engine.ts).                  *)
(*                                                                         *)
(* generateSmartPrompt asks the generative model for a prompt and falls    *)
(* back to generateStaticPrompt when the request or its response fails.    *)
(* The model runs a fixed set of call slots: each slot holds one           *)
(* invocation at a time, from the call to the value handed to the caller.  *)
(*                                                                         *)
(* Strings are sequences of tokens: a token is a fragment of text that     *)
(* the program never looks into (a literal of a template, a table key, a   *)
(* phrase typed by the user).  Concatenation is \o, the empty string is    *)
(* << >>.  A JavaScript value is a record [t, s]: its type and, for a      *)
(* string, its text (for the other types, what String(v) gives).           *)
(***************************************************************************)
EXTENDS Integers, Sequences, FiniteSets, TLC

VARIABLES
    pc,          \* slot -> "idle" | "awaiting" | "resolved" | "rejected"
    entry,       \* slot -> which exported function the caller invoked
    args,        \* slot -> [event, industry, brandStyleContext] of the invocation
    request,     \* slot -> the brief sent to the model (NoRequest when none)
    upstream,    \* slot -> state of the slot's model.generateContent promise
    result,      \* slot -> the string the promise resolved with (NoResult before)
    path,        \* slot -> "none" | "smart" | "static": the return statement taken
    requests,    \* slot -> upstream requests issued by the current invocation
    fallbacks    \* slot -> passes through the catch block by the current invocation

\* The profiles table (docs/MIGRATION-USER-PREFERENCES.sql).
VARIABLES
    profiles,    \* the committed rows of public.profiles
    txn,         \* session -> the upsert_profile_logo call it is running
    now,         \* statements started so far: the clock of CURRENT_TIMESTAMP
    lastUpsert,  \* the arguments of the upsert completed last, if no other write followed
    access       \* the rows the last statement read or wrote, and for whom

\* A database the migration script runs on (docs/MIGRATION-USER-PREFERENCES.sql).
VARIABLES
    schema,      \* the profiles table, its rows and the objects around it
    mstep,       \* the statement of the script to run next, 0 between runs
    runs,        \* completed runs of the script
    afterFirst,  \* the schema objects as the first run left them
    startRows,   \* the rows the table held before the first run
    merror       \* whether a statement of the script failed

\* A mounted useBrandReady hook (lib/prompt-engine.ts, second file).
VARIABLES
    user,         \* useAuth().user: "none" or a user id
    authLoading,  \* useAuth().loading
    isReady,      \* useState(false)
    loading,      \* useState(true)
    listening,    \* whether handleProfileReady is registered on window
    fetches,      \* request -> the profile fetch in flight, if any
    eventSeen,    \* userProfileReady was delivered since user and authLoading last changed
    hookLast      \* what the last step of the hook was

\* A mounted BrandOnboardingWrapper.
VARIABLES
    wUser,        \* useAuth().user
    wAuthLoading, \* useAuth().loading
    showModal,    \* useState(false)
    userEmail,    \* useState(null)
    wIsReady,     \* useState(false), the wrapper's isReady
    checks,       \* request -> the checkUserProfile call in flight, if any
    wrapperLast,  \* what the last step of the wrapper was
    onboarded     \* the user who completed onboarding since useAuth() last changed

\* A mounted AuthCallback page (app/auth/callback) and its handleCallback.
VARIABLES
    cbPc,             \* where handleCallback is: the await it waits at, or idle/done
    cbRuns,           \* runs of handleCallback started so far
    is_new_signup,    \* the sessionStorage item of that name
    flagAtStart,      \* the item as the current run found it
    session,          \* data.session of the current run
    isNewSignup,      \* const isNewSignup
    existingProfile,  \* let existingProfile
    profileRow,       \* whether the profiles table holds a row for the user
    profileResponse,  \* const profileResponse, once fetch resolved
    posts,            \* bodies of the POST /api/profiles requests of the run
    pushes,           \* router.push targets of the run
    cbTrace           \* what the run did, in order

\* An open SimpleSignUpModal and its handleEmailSignUp.
VARIABLES
    suPc,            \* where handleEmailSignUp is: the await it waits at, or idle/done
    submits,         \* submissions of the form so far
    suEmail,         \* useState(''): email
    suPassword,      \* useState(''): password
    suLoading,       \* useState(false): loading
    suError,         \* useState(null): error
    authResult,      \* what supabase.auth.signUp gave to the current submission
    suResponse,      \* what fetch('/api/profiles') gave to the current submission
    onSuccessCalls   \* calls of onSuccess by the current submission

promptVars == <<pc, entry, args, request, upstream, result, path, requests, fallbacks>>

dbVars == <<profiles, txn, now, lastUpsert, access>>

migVars == <<schema, mstep, runs, afterFirst, startRows, merror>>

hookVars == <<user, authLoading, isReady, loading, listening, fetches, eventSeen, hookLast>>

wrapperVars ==
    <<wUser, wAuthLoading, showModal, userEmail, wIsReady, checks, wrapperLast, onboarded>>

callbackVars ==
    <<cbPc, cbRuns, is_new_signup, flagAtStart, session, isNewSignup,
      existingProfile, profileRow, profileResponse, posts, pushes, cbTrace>>

signUpVars ==
    <<suPc, submits, suEmail, suPassword, suLoading, suError, authResult,
      suResponse, onSuccessCalls>>

vars == <<promptVars, dbVars, migVars, hookVars, wrapperVars, callbackVars, signUpVars>>

\* What a step of one component leaves alone: the other components.
PromptRest == <<dbVars, migVars, hookVars, wrapperVars, callbackVars, signUpVars>>

DbRest == <<promptVars, migVars, hookVars, wrapperVars, callbackVars, signUpVars>>

MigRest == <<promptVars, dbVars, hookVars, wrapperVars, callbackVars, signUpVars>>

HookRest == <<promptVars, dbVars, migVars, wrapperVars, callbackVars, signUpVars>>

WrapperRest == <<promptVars, dbVars, migVars, hookVars, callbackVars, signUpVars>>

CallbackRest == <<promptVars, dbVars, migVars, hookVars, wrapperVars, signUpVars>>

SignUpRest == <<promptVars, dbVars, migVars, hookVars, wrapperVars, callbackVars>>

\* Bound: the length, in tokens, of the longest brand style text a caller passes.
MaxStyleLen == 1

Slots == {"a", "b"}

Other(i) == CHOOSE j \in Slots : j # i

----------------------------------------------------------------------------
(* JavaScript values *)

Undefined == [t |-> "undefined", s |-> << >>]

Null == [t |-> "null", s |-> << >>]

JStr(s) == [t |-> "string", s |-> s]

\* Object.prototype members as seen through a property read: functions.
NativeFn(s) == [t |-> "function", s |-> s]

\* ToBoolean: what `if (v)`, `v || d`, `!v` and `v ? a : b` test.
Truthy(v) ==
    CASE v.t \in {"undefined", "null"} -> FALSE
      [] v.t = "string" -> v.s # << >>
      [] OTHER -> TRUE

\* ToString, as a template literal `${v}` applies it.
ToStr(v) ==
    CASE v.t = "undefined" -> <<"undefined">>
      [] v.t = "null" -> <<"null">>
      [] OTHER -> v.s

\* Completion of a statement or call: a normal value or a thrown error.
Return(v) == [kind |-> "return", val |-> v]

Throw(e) == [kind |-> "throw", val |-> e]

----------------------------------------------------------------------------
(* Static tables *)

\* Members every plain object inherits from Object.prototype: obj[key] finds
\* them when obj has no own property of that name.
ObjectPrototype ==
    (<<"constructor">> :> NativeFn(<<"function Object() { [native code] }">>)) @@
    (<<"toString">> :> NativeFn(<<"function toString() { [native code] }">>)) @@
    (<<"valueOf">> :> NativeFn(<<"function valueOf() { [native code] }">>))

\* obj[key] on a plain object: own property, else inherited, else undefined.
PropertyRead(obj, key) ==
    IF key \in DOMAIN obj THEN obj[key]
    ELSE IF key \in DOMAIN ObjectPrototype THEN ObjectPrototype[key]
    ELSE Undefined

\* The map of getEventContext.
eventContextMap ==
    (<<"Lohri">> :> JStr(<<"North Indian harvest festival, bonfires, winter night">>)) @@
    (<<"Makar Sankranti">> :> JStr(<<"Day festival, kite flying, sun, harvest">>)) @@
    (<<"Republic Day">> :> JStr(<<"National pride, military parade, flag colors">>))

\* ./festival-data: label -> descriptive phrase, with the entries the
\* defaults name.  A phrase is one token standing for the entry's text.
industryKeywords ==
    (<<"Education">> :> JStr(<<"industryKeywords[Education]">>)) @@
    (<<"Real Estate">> :> JStr(<<"industryKeywords[Real Estate]">>))

eventKeywords ==
    (<<"Lohri">> :> JStr(<<"eventKeywords[Lohri]">>)) @@
    (<<"Makar Sankranti">> :> JStr(<<"eventKeywords[Makar Sankranti]">>)) @@
    (<<"Republic Day">> :> JStr(<<"eventKeywords[Republic Day]">>))

----------------------------------------------------------------------------
(* Fallback system *)

\* a || b
OrElse(a, b) == IF Truthy(a) THEN a ELSE b

getEventContext(event) ==
    OrElse(PropertyRead(eventContextMap, event), JStr(<<"Celebration">>))

indKeywordsOf(industry) ==
    OrElse(PropertyRead(industryKeywords, industry), industryKeywords[<<"Education">>])

evtKeywordsOf(event) ==
    OrElse(PropertyRead(eventKeywords, event), eventKeywords[<<"Republic Day">>])

\* Mutant: the two keyword phrases are interpolated in the other order.
StaticTemplate_swapsKeywords(event, industry) ==
    event \o <<" social media background, ">> \o industry \o <<" style. \n  Visuals: ">>
        \o ToStr(evtKeywordsOf(event)) \o <<", ">> \o ToStr(indKeywordsOf(industry))
        \o <<". \n  High quality, photorealistic, 8k. NO TEXT.">>

\* The template of generateStaticPrompt before the style clause.
StaticTemplate(event, industry) ==
    event \o <<" social media background, ">> \o industry \o <<" style. \n  Visuals: ">>
        \o ToStr(indKeywordsOf(industry)) \o <<", ">> \o ToStr(evtKeywordsOf(event))
        \o <<". \n  High quality, photorealistic, 8k. NO TEXT.">>

StaticStyleLabel == <<" Style: ">>

\* Mutant: the style clause is appended without the test.
StaticStyleClause_always(brandStyleContext) ==
    StaticStyleLabel \o ToStr(brandStyleContext)

\* if (brandStyleContext) prompt += ` Style: ${brandStyleContext}`
StaticStyleClause(brandStyleContext) ==
    IF Truthy(brandStyleContext) THEN StaticStyleLabel \o ToStr(brandStyleContext)
    ELSE << >>

\* Mutant: `prompt` is a module-level variable that += keeps extending, so a
\* call starts from the text an earlier call left.
generateStaticPrompt_sharedPrompt(event, industry, brandStyleContext) ==
    LET left == IF \E j \in Slots : path[j] = "static"
                THEN result[CHOOSE j \in Slots : path[j] = "static"]
                ELSE << >>
    IN left \o StaticTemplate(event, industry) \o StaticStyleClause(brandStyleContext)

generateStaticPrompt(event, industry, brandStyleContext) ==
    StaticTemplate(event, industry) \o StaticStyleClause(brandStyleContext)

----------------------------------------------------------------------------
(* The upstream model call *)

NoResponse == [candidates |-> "none", text |-> Undefined]

\* The promise of model.generateContent for one slot.
NotAsked == [state |-> "none", response |-> NoResponse]

Pending == [state |-> "pending", response |-> NoResponse]

Rejected == [state |-> "rejected", response |-> NoResponse]

Fulfilled(response) == [state |-> "fulfilled", response |-> response]

\* Texts the first candidate can carry.
WellFormedText ==
    <<"{\"reasoning\":\"r\",\"image_prompt\":\"p\",\"headline_suggestion\":\"h\",\"color_palette_hex\":[\"#111111\"]}">>

NoImagePromptText == <<"{\"reasoning\":\"r\"}">>

ScalarText == <<"42">>

NullText == <<"null">>

UnparseableText == <<"Sorry, I cannot help with that.">>

\* What result.response can be: candidates absent, an empty candidates array,
\* or a first candidate whose part holds `text`.
Responses ==
    { [candidates |-> "absent", text |-> Undefined],
      [candidates |-> "empty", text |-> Undefined] }
    \cup { [candidates |-> "one", text |-> t] :
             t \in { Undefined, JStr(<< >>), JStr(UnparseableText), JStr(NullText),
                     JStr(ScalarText), JStr(NoImagePromptText), JStr(WellFormedText) } }

\* result.response.candidates?.[0].content.parts[0].text
FirstCandidateText(response) ==
    CASE response.candidates = "absent" -> Return(Undefined)
      [] response.candidates = "empty" -> Throw("TypeError")
      [] OTHER -> Return(response.text)

\* The documents JSON.parse accepts among the texts above, with their values.
\* A parsed object is [t |-> "object", props |-> name -> value].
JsonDocuments ==
    (WellFormedText :>
        [t |-> "object", s |-> <<"[object Object]">>,
         props |-> [reasoning |-> JStr(<<"r">>), image_prompt |-> JStr(<<"p">>),
                    headline_suggestion |-> JStr(<<"h">>),
                    color_palette_hex |-> [t |-> "array", s |-> <<"#111111">>]]]) @@
    (NoImagePromptText :>
        [t |-> "object", s |-> <<"[object Object]">>,
         props |-> [reasoning |-> JStr(<<"r">>)]]) @@
    (ScalarText :> [t |-> "number", s |-> <<"42">>, props |-> << >>]) @@
    (NullText :> [t |-> "null", s |-> << >>, props |-> << >>])

JSONparse(text) ==
    IF text \in DOMAIN JsonDocuments THEN Return(JsonDocuments[text])
    ELSE Throw("SyntaxError")

\* data.name: a TypeError on null, the property of an object, undefined on a
\* primitive without it.
GetProp(data, name) ==
    CASE data.t \in {"null", "undefined"} -> Throw("TypeError")
      [] data.t = "object" /\ name \in DOMAIN data.props -> Return(data.props[name])
      [] OTHER -> Return(Undefined)

----------------------------------------------------------------------------
(* The smart prompt generator *)

DefaultGuide == <<"No specific guide. Aim for high-end, clean, professional.">>

Brief(event, industry, brandStyleContext) ==
    <<"\n    CLIENT BRIEF:\n    - Event: ">> \o event \o <<" (Context: ">>
        \o ToStr(getEventContext(event)) \o <<")\n    - Industry: ">> \o industry
        \o <<"\n    - Brand Style Guide: ">>
        \o ToStr(OrElse(brandStyleContext, JStr(DefaultGuide)))
        \o <<"\n    \n    TASK:\n    Write a photorealistic image generation prompt ...">>

GenerateContentRequest(event, industry, brandStyleContext) ==
    [contents |-> Brief(event, industry, brandStyleContext),
     systemInstruction |-> "CREATIVE_DIRECTOR_SYSTEM_PROMPT",
     responseMimeType |-> "application/json"]

NoRequest == [contents |-> << >>, systemInstruction |-> "", responseMimeType |-> ""]

TechnicalSpecs ==
    <<" \n    \n    TECHNICAL SPECS:\n    - High quality, 8k, photorealistic, professional photography\n    - NO text, NO watermarks, NO borders, NO frames\n    - Seamless, cinematic lighting, wide angle\n">>

SmartStyleLabel == <<"    - Style: ">>

DefaultStyle == <<"Modern, clean, corporate">>

\* Mutant: the style value is interpolated without the default.
SmartStyleValue_noDefault(brandStyleContext) == ToStr(brandStyleContext)

\* brandStyleContext ? brandStyleContext : 'Modern, clean, corporate'
SmartStyleValue(brandStyleContext) ==
    IF Truthy(brandStyleContext) THEN ToStr(brandStyleContext) ELSE DefaultStyle

\* The return statement of the try block.
SmartPrompt(data, brandStyleContext) ==
    LET image_prompt == GetProp(data, "image_prompt") IN
    IF image_prompt.kind = "throw" THEN image_prompt
    ELSE Return(ToStr(image_prompt.val) \o TechnicalSpecs \o SmartStyleLabel
                    \o SmartStyleValue(brandStyleContext))

\* The try block from the point where the awaited promise has settled.
TryAfterAwait(brandStyleContext, settled) ==
    IF settled.state # "fulfilled" THEN Throw("upstream error")
    ELSE LET response == FirstCandidateText(settled.response) IN
         IF response.kind = "throw" THEN response
         ELSE IF ~Truthy(response.val) THEN Throw("No response from Creative Director")
         ELSE LET data == JSONparse(response.val.s) IN
              IF data.kind = "throw" THEN data
              ELSE LET reasoning == GetProp(data.val, "reasoning") IN
                   IF reasoning.kind = "throw" THEN reasoning
                   ELSE SmartPrompt(data.val, brandStyleContext)

\* Mutant: the catch block logs and rethrows.
CatchBlock_rethrows(event, industry, brandStyleContext) ==
    Throw("upstream error")

\* Mutant: the catch block calls the fallback without the brand style.
CatchBlock_dropsStyle(event, industry, brandStyleContext) ==
    Return(generateStaticPrompt(event, industry, Null))

\* The catch block.
CatchBlock(event, industry, brandStyleContext) ==
    Return(generateStaticPrompt(event, industry, brandStyleContext))

\* try { ... } catch { ... } from the point where the awaited promise has
\* settled: the completion of the async function, the return statement that
\* produced it and the number of passes through the catch block.
SmartCompletion(event, industry, brandStyleContext, settled) ==
    LET tried == TryAfterAwait(brandStyleContext, settled) IN
    IF tried.kind = "return"
    THEN [completion |-> tried, path |-> "smart", fallbacks |-> 0]
    ELSE [completion |-> CatchBlock(event, industry, brandStyleContext),
          path |-> "static", fallbacks |-> 1]

\* Mutant: the wait is raced against a timer, so the continuation may run
\* whatever the state of the promise.
AwaitSettled_orTimeout(promise) == TRUE

\* Mutant: the continuation is attached to fulfilment only.
AwaitSettled_fulfilledOnly(promise) == promise.state = "fulfilled"

\* await: the continuation runs once the awaited promise has settled.
AwaitSettled(promise) == promise.state \in {"fulfilled", "rejected"}

\* Mutant: the parameters are kept in module-level variables, which a call
\* started meanwhile has overwritten.
CapturedArgs_lastCall(i) ==
    IF pc[Other(i)] = "awaiting" THEN args[Other(i)] ELSE args[i]

\* The parameters an invocation's continuation reads: its own.
CapturedArgs(i) == args[i]

----------------------------------------------------------------------------
(* Inputs *)

\* A key of both event tables, a festival neither lists, and a name that
\* Object.prototype defines.
Events == {<<"Lohri">>, <<"Pongal">>, <<"constructor">>}

\* A key of industryKeywords, and the empty string, which is none.
Industries == {<<"Real Estate">>, << >>}

\* Brand style texts of n tokens.
StyleText(n) == [k \in 1..n |-> "warm, earthy, handcrafted"]

\* string | null
StyleContexts == {Null} \cup {JStr(StyleText(n)) : n \in 0..MaxStyleLen}

\* string | null | undefined
OptionalStyleContexts == StyleContexts \cup {Undefined}

NoArgs == [event |-> << >>, industry |-> << >>, brandStyleContext |-> Undefined]

NoResult == <<"<pending>">>

----------------------------------------------------------------------------
(* The other components at rest *)

NULL == "NULL"

Sessions == {"s1", "s2"}

NoCall == [p_user_id |-> NULL, p_email |-> NULL, p_industry_type |-> NULL,
           p_logo_url |-> NULL]

NoTxn == [pc |-> "idle", actor |-> NULL, call |-> NoCall, ts |-> 0,
          concurrent |-> FALSE, sqlstate |-> "none"]

NoUpsert == [kind |-> "none"]

NoAccess == [actor |-> NULL, via |-> "none", ids |-> {}]

\* No database session is open and the table is empty.
DbIdle ==
    /\ profiles = {}
    /\ txn = [s \in Sessions |-> NoTxn]
    /\ now = 0
    /\ lastUpsert = NoUpsert
    /\ access = NoAccess

NoTable ==
    [exists |-> FALSE, columns |-> {}, rows |-> {}, comments |-> {},
     functions |-> {}, triggers |-> {}, rls |-> FALSE, policies |-> {},
     grants |-> {}, indexes |-> {}]

NoShape == [exists |-> FALSE]

\* No migration is running, on a database without a profiles table.
MigIdle ==
    /\ schema = NoTable
    /\ mstep = 0
    /\ runs = 0
    /\ afterFirst = NoShape
    /\ startRows = {}
    /\ merror = FALSE

MaxInFlight == 2

\* The requests a component can have in flight at once.
RequestIds == 1 .. MaxInFlight

NoUser == "none"

NoFetch == [for |-> NoUser, stale |-> FALSE]

NoStep == [kind |-> "none"]

\* The hook as mounted while auth is still loading: the useState defaults,
\* and the first effect run has taken its authLoading branch.
HookIdle ==
    /\ user = NoUser
    /\ authLoading = TRUE
    /\ isReady = FALSE
    /\ loading = TRUE
    /\ listening = FALSE
    /\ fetches = [k \in RequestIds |-> NoFetch]
    /\ eventSeen = FALSE
    /\ hookLast = NoStep

\* The wrapper as mounted while auth is still loading.
WrapperIdle ==
    /\ wUser = NoUser
    /\ wAuthLoading = TRUE
    /\ showModal = FALSE
    /\ userEmail = Null
    /\ wIsReady = FALSE
    /\ checks = [k \in RequestIds |-> NoFetch]
    /\ wrapperLast = NoStep
    /\ onboarded = NoUser

\* sessionStorage.getItem of an item that is not there.
NoItem == "(no item)"

NoSessionYet == [kind |-> "pending"]

NoResponseYet == [kind |-> "pending"]

\* The page is mounted and handleCallback has not been called.
CallbackIdle ==
    /\ cbPc = "idle"
    /\ cbRuns = 0
    /\ is_new_signup = NoItem
    /\ flagAtStart = NoItem
    /\ session = NoSessionYet
    /\ isNewSignup = FALSE
    /\ existingProfile = Null
    /\ profileRow = FALSE
    /\ profileResponse = NoResponseYet
    /\ posts = << >>
    /\ pushes = << >>
    /\ cbTrace = << >>

NoAuthResult == [kind |-> "pending"]

\* The modal is open and the form untouched.
SignUpIdle ==
    /\ suPc = "idle"
    /\ submits = 0
    /\ suEmail = << >>
    /\ suPassword = << >>
    /\ suLoading = FALSE
    /\ suError = Null
    /\ authResult = NoAuthResult
    /\ suResponse = NoResponseYet
    /\ onSuccessCalls = 0

PromptRestIdle ==
    DbIdle /\ MigIdle /\ HookIdle /\ WrapperIdle /\ CallbackIdle /\ SignUpIdle

----------------------------------------------------------------------------
(* Actions *)

\* No invocation of the prompt engine is in progress.
PromptIdle ==
    /\ pc = [i \in Slots |-> "idle"]
    /\ entry = [i \in Slots |-> "none"]
    /\ args = [i \in Slots |-> NoArgs]
    /\ request = [i \in Slots |-> NoRequest]
    /\ upstream = [i \in Slots |-> NotAsked]
    /\ result = [i \in Slots |-> NoResult]
    /\ path = [i \in Slots |-> "none"]
    /\ requests = [i \in Slots |-> 0]
    /\ fallbacks = [i \in Slots |-> 0]

Init == PromptIdle /\ PromptRestIdle

\* A caller invokes generateSmartPrompt: the function runs up to its await,
\* having issued the request to the model.
CallSmart(i, event, industry, brandStyleContext) ==
    /\ pc[i] = "idle"
    /\ pc' = [pc EXCEPT ![i] = "awaiting"]
    /\ entry' = [entry EXCEPT ![i] = "generateSmartPrompt"]
    /\ args' = [args EXCEPT ![i] = [event |-> event, industry |-> industry,
                                    brandStyleContext |-> brandStyleContext]]
    /\ request' = [request EXCEPT
                     ![i] = GenerateContentRequest(event, industry, brandStyleContext)]
    /\ upstream' = [upstream EXCEPT ![i] = Pending]
    /\ requests' = [requests EXCEPT ![i] = 1]
    /\ fallbacks' = [fallbacks EXCEPT ![i] = 0]
    /\ UNCHANGED PromptRest
    /\ result' = [result EXCEPT ![i] = NoResult]
    /\ path' = [path EXCEPT ![i] = "none"]

\* The model endpoint answers the slot's request, or the request fails.
UpstreamSettle(i, outcome) ==
    /\ pc[i] = "awaiting"
    /\ upstream[i].state = "pending"
    /\ upstream' = [upstream EXCEPT ![i] = outcome]
    /\ UNCHANGED <<pc, entry, args, request, result, path, requests, fallbacks>>
    /\ UNCHANGED PromptRest

\* The continuation of generateSmartPrompt after its await, to its return.
Resume(i) ==
    /\ pc[i] = "awaiting"
    /\ AwaitSettled(upstream[i])
    /\ LET a == CapturedArgs(i)
           c == SmartCompletion(a.event, a.industry, a.brandStyleContext, upstream[i])
       IN /\ pc' = [pc EXCEPT ![i] = IF c.completion.kind = "return"
                                      THEN "resolved" ELSE "rejected"]
          /\ result' = [result EXCEPT ![i] = IF c.completion.kind = "return"
                                              THEN c.completion.val ELSE NoResult]
          /\ path' = [path EXCEPT ![i] = c.path]
          /\ fallbacks' = [fallbacks EXCEPT ![i] = @ + c.fallbacks]
    /\ UNCHANGED <<entry, args, request, upstream, requests>>
    /\ UNCHANGED PromptRest

\* A caller invokes the exported generateStaticPrompt directly: synchronous.
CallStatic(i, event, industry, brandStyleContext) ==
    /\ pc[i] = "idle"
    /\ pc' = [pc EXCEPT ![i] = "resolved"]
    /\ entry' = [entry EXCEPT ![i] = "generateStaticPrompt"]
    /\ args' = [args EXCEPT ![i] = [event |-> event, industry |-> industry,
                                    brandStyleContext |-> brandStyleContext]]
    /\ result' = [result EXCEPT
                    ![i] = generateStaticPrompt(event, industry, brandStyleContext)]
    /\ path' = [path EXCEPT ![i] = "static"]
    /\ request' = [request EXCEPT ![i] = NoRequest]
    /\ upstream' = [upstream EXCEPT ![i] = NotAsked]
    /\ requests' = [requests EXCEPT ![i] = 0]
    /\ fallbacks' = [fallbacks EXCEPT ![i] = 0]
    /\ UNCHANGED PromptRest

\* The caller takes the value; the slot is free for the next invocation.
Collect(i) ==
    /\ pc[i] \in {"resolved", "rejected"}
    /\ pc' = [pc EXCEPT ![i] = "idle"]
    /\ entry' = [entry EXCEPT ![i] = "none"]
    /\ args' = [args EXCEPT ![i] = NoArgs]
    /\ request' = [request EXCEPT ![i] = NoRequest]
    /\ upstream' = [upstream EXCEPT ![i] = NotAsked]
    /\ result' = [result EXCEPT ![i] = NoResult]
    /\ path' = [path EXCEPT ![i] = "none"]
    /\ requests' = [requests EXCEPT ![i] = 0]
    /\ fallbacks' = [fallbacks EXCEPT ![i] = 0]
    /\ UNCHANGED PromptRest

Outcomes == {Rejected} \cup {Fulfilled(r) : r \in Responses}

Next ==
    \/ \E i \in Slots, e \in Events, n \in Industries, b \in StyleContexts :
            CallSmart(i, e, n, b)
    \/ \E i \in Slots, o \in Outcomes : UpstreamSettle(i, o)
    \/ \E i \in Slots : Resume(i)
    \/ \E i \in Slots, e \in Events, n \in Industries, b \in OptionalStyleContexts :
            CallStatic(i, e, n, b)
    \/ \E i \in Slots : Collect(i)

Spec == Init /\ [][Next]_vars

----------------------------------------------------------------------------
(* Properties *)

Smart(i) == entry[i] = "generateSmartPrompt"

Returned(i) == pc[i] = "resolved"

\* The token sequence s contains sub as a contiguous run.
Contains(s, sub) ==
    \E k \in 0..(Len(s) - Len(sub)) : SubSeq(s, k + 1, k + Len(sub)) = sub

\* C1: generateSmartPrompt never rejects or throws to its caller, whatever the
\* inputs and however the upstream call completes, and the string it resolves
\* with is not empty.
C1_NeverRejectsNonEmpty ==
    \A i \in Slots :
        Smart(i) =>
            /\ pc[i] # "rejected"
            /\ Returned(i) => /\ result[i] # NoResult
                              /\ Len(result[i]) > 0
                              /\ \A k \in 1..Len(result[i]) : result[i][k] # ""

\* An invocation with the empty industry and no brand style has resolved after
\* its upstream request was rejected, and another after a parsed response.
C1_Witness ==
    \E i, j \in Slots :
        /\ Smart(i) /\ Returned(i) /\ upstream[i].state = "rejected"
        /\ args[i].industry = << >> /\ args[i].brandStyleContext = Null
        /\ Smart(j) /\ Returned(j) /\ upstream[j].state = "fulfilled"
        /\ path[j] = "smart"

\* The three upstream failure modes, read off the settled promise: the call
\* threw, the response has no first-candidate text, the text is no JSON document.
CallThrew(promise) == promise.state = "rejected"

NoCandidateText(promise) ==
    /\ promise.state = "fulfilled"
    /\ \/ promise.response.candidates # "one"
       \/ promise.response.text.t # "string"
       \/ promise.response.text.s = << >>

UnparseableCandidate(promise) ==
    /\ promise.state = "fulfilled"
    /\ promise.response.candidates = "one"
    /\ promise.response.text.t = "string"
    /\ promise.response.text.s # << >>
    /\ promise.response.text.s \notin DOMAIN JsonDocuments

\* C2: when the model call throws, the response has no first-candidate text,
\* or the text is not parseable as JSON, generateSmartPrompt returns exactly
\* what generateStaticPrompt returns for the same three arguments.
C2_FailureModesGiveStaticPrompt ==
    \A i \in Slots :
        ( /\ Smart(i) /\ Returned(i)
          /\ \/ CallThrew(upstream[i])
             \/ NoCandidateText(upstream[i])
             \/ UnparseableCandidate(upstream[i]) )
        => result[i] = generateStaticPrompt(args[i].event, args[i].industry,
                                            args[i].brandStyleContext)

\* Two invocations with a brand style have returned, one after an unparseable
\* text and one after a response without candidates.
C2_Witness ==
    \E i, j \in Slots :
        /\ Smart(i) /\ Returned(i) /\ UnparseableCandidate(upstream[i])
        /\ Truthy(args[i].brandStyleContext)
        /\ Smart(j) /\ Returned(j) /\ NoCandidateText(upstream[j])
        /\ upstream[j].response.candidates = "empty"

\* The CreativeDirectorResponse shape.
HasShape(v) ==
    /\ v.t = "object"
    /\ {"reasoning", "image_prompt", "headline_suggestion", "color_palette_hex"}
           \subseteq DOMAIN v.props
    /\ v.props.reasoning.t = "string"
    /\ v.props.image_prompt.t = "string"
    /\ v.props.headline_suggestion.t = "string"
    /\ v.props.color_palette_hex.t = "array"

ParsedCandidate(promise) ==
    /\ promise.state = "fulfilled"
    /\ promise.response.candidates = "one"
    /\ promise.response.text.t = "string"
    /\ promise.response.text.s \in DOMAIN JsonDocuments

WellFormed(promise) ==
    ParsedCandidate(promise) /\ HasShape(JsonDocuments[promise.response.text.s])

ParsedButMalformed(promise) ==
    ParsedCandidate(promise) /\ ~HasShape(JsonDocuments[promise.response.text.s])

StaticPromptFor(a) == generateStaticPrompt(a.event, a.industry, a.brandStyleContext)

\* C3: a response text that parses as JSON but has not the
\* CreativeDirectorResponse shape makes generateSmartPrompt return the static
\* fallback prompt, never a prompt built from the malformed data.
C3_MalformedJsonFallsBack ==
    \A i \in Slots :
        (Smart(i) /\ Returned(i) /\ ParsedButMalformed(upstream[i]))
        => (path[i] = "static" /\ result[i] = StaticPromptFor(args[i]))

\* C4: an industry that is no key of industryKeywords gets the "Education"
\* phrase in the static prompt, an event that is no key of eventKeywords gets
\* the "Republic Day" phrase, and an event that is no key of the event-context
\* table gets the context "Celebration" in the brief.
C4_UnknownKeysGetDefaults ==
    \A i \in Slots :
        /\ (Returned(i) /\ path[i] = "static" /\ args[i].industry \notin DOMAIN industryKeywords)
           => Contains(result[i], <<" style. \n  Visuals: ">>
                                      \o industryKeywords[<<"Education">>].s \o <<", ">>)
        /\ (Returned(i) /\ path[i] = "static" /\ args[i].event \notin DOMAIN eventKeywords)
           => Contains(result[i], <<", ">> \o eventKeywords[<<"Republic Day">>].s
                                      \o <<". \n  High quality, photorealistic, 8k. NO TEXT.">>)
        /\ (Smart(i) /\ args[i].event \notin DOMAIN eventContextMap)
           => Contains(request[i].contents,
                       <<" (Context: ", "Celebration", ")\n    - Industry: ">>)

\* C5 as stated: the static prompt has no style clause when brandStyleContext
\* is null or absent, and has " Style: <context>" for every string passed.
C5_StyleClauseForEveryString ==
    \A i \in Slots :
        (Returned(i) /\ path[i] = "static") =>
            LET b == args[i].brandStyleContext IN
            /\ b.t \in {"null", "undefined"} => ~Contains(result[i], StaticStyleLabel)
            /\ b.t = "string" => Contains(result[i], StaticStyleLabel \o b.s)

\* C5, amended: the static prompt has no style clause when brandStyleContext is
\* null, absent or the empty string, and for every non-empty brandStyleContext
\* it contains " Style: <context>", the context verbatim, as its ending.
C5_StyleClauseForNonEmptyString ==
    \A i \in Slots :
        (Returned(i) /\ path[i] = "static") =>
            LET b == args[i].brandStyleContext
                n == Len(result[i])
            IN
            /\ (b.t \in {"null", "undefined"} \/ (b.t = "string" /\ b.s = << >>))
               => ~Contains(result[i], StaticStyleLabel)
            /\ (b.t = "string" /\ b.s # << >>)
               => /\ Contains(result[i], StaticStyleLabel \o b.s)
                  /\ n > Len(b.s)
                  /\ SubSeq(result[i], n - Len(b.s), n) = StaticStyleLabel \o b.s

\* Static prompts have been produced for an absent, an empty and a non-empty
\* brand style.
C5_Witness ==
    \E i, j \in Slots :
        /\ Returned(i) /\ path[i] = "static"
        /\ args[i].brandStyleContext \in {Undefined, JStr(<< >>)}
        /\ Returned(j) /\ path[j] = "static"
        /\ args[j].brandStyleContext = JStr(StyleText(1))

\* The prompt C6 describes, with the style value v.
SmartPromptWith(promise, v) ==
    JsonDocuments[promise.response.text.s].props.image_prompt.s
        \o TechnicalSpecs \o SmartStyleLabel \o v

\* C6 as stated: after a well-formed response the result is image_prompt, the
\* technical block and a style clause holding brandStyleContext whenever a
\* string was passed, else the default; and it is not the static prompt.
C6_SmartPromptStyleOfEveryString ==
    \A i \in Slots :
        (Smart(i) /\ Returned(i) /\ WellFormed(upstream[i])) =>
            LET b == args[i].brandStyleContext IN
            /\ result[i] = SmartPromptWith(upstream[i],
                                           IF b.t = "string" THEN b.s ELSE DefaultStyle)
            /\ result[i] # StaticPromptFor(args[i])

\* C6, amended: after a well-formed response the result is image_prompt, the
\* technical block and a style clause holding brandStyleContext if it is a
\* non-empty string, else "Modern, clean, corporate"; it is not the static
\* prompt.
C6_SmartPromptStyleOfNonEmptyString ==
    \A i \in Slots :
        (Smart(i) /\ Returned(i) /\ WellFormed(upstream[i])) =>
            LET b == args[i].brandStyleContext IN
            /\ path[i] = "smart"
            /\ result[i] = SmartPromptWith(upstream[i],
                                           IF b.t = "string" /\ b.s # << >>
                                           THEN b.s ELSE DefaultStyle)
            /\ result[i] # StaticPromptFor(args[i])

\* Two invocations have returned after well-formed responses, one with a brand
\* style and one with none.
C6_Witness ==
    \E i, j \in Slots :
        /\ Smart(i) /\ Returned(i) /\ WellFormed(upstream[i])
        /\ args[i].brandStyleContext = JStr(StyleText(1))
        /\ Smart(j) /\ Returned(j) /\ WellFormed(upstream[j])
        /\ args[j].brandStyleContext = Null

SlotState(i) ==
    <<pc[i], entry[i], args[i], request[i], upstream[i], result[i], path[i],
      requests[i], fallbacks[i]>>

\* The value generateSmartPrompt owes for arguments a once its own request has
\* settled as promise.
OwnValue(a, promise) ==
    SmartCompletion(a.event, a.industry, a.brandStyleContext, promise).completion.val

\* C8: concurrent invocations are independent: a step of one invocation leaves
\* everything of the other unchanged, and the value an invocation returns is
\* the one its own arguments and the outcome of its own request determine,
\* whatever the other invocation is doing.
C8_InvocationsIndependent ==
    [][ \A i \in Slots :
          (SlotState(i)' # SlotState(i)) =>
              /\ SlotState(Other(i))' = SlotState(Other(i))
              /\ (Smart(i) /\ pc[i] = "awaiting" /\ pc'[i] # "awaiting")
                 => /\ pc'[i] = "resolved"
                    /\ result'[i] = OwnValue(args[i], upstream[i]) ]_vars

\* One invocation has returned while another, with other arguments and another
\* upstream outcome, is still in flight with its answer delivered.
C8_Witness ==
    \E i \in Slots :
        /\ Smart(i) /\ Returned(i)
        /\ Smart(Other(i)) /\ pc[Other(i)] = "awaiting"
        /\ AwaitSettled(upstream[Other(i)])
        /\ upstream[Other(i)] # upstream[i]
        /\ args[Other(i)].event # args[i].event
        /\ args[Other(i)].brandStyleContext # args[i].brandStyleContext
        /\ path[i] = "static"

\* C9: while the upstream call is pending, generateSmartPrompt has neither
\* returned nor entered the fallback; the fallback is entered only after the
\* call failed or its response was rejected; one request is made and never
\* repeated; an invocation that has returned has a settled upstream call.
C9_FallbackOnlyAfterUpstreamCompletes ==
    \A i \in Slots :
        Smart(i) =>
            /\ requests[i] = 1
            /\ upstream[i].state = "pending"
               => /\ pc[i] = "awaiting"
                  /\ path[i] = "none"
                  /\ fallbacks[i] = 0
                  /\ result[i] = NoResult
            /\ pc[i] # "awaiting" => upstream[i].state \in {"fulfilled", "rejected"}
            /\ (path[i] = "static" \/ fallbacks[i] > 0)
               => \/ CallThrew(upstream[i])
                  \/ upstream[i].state = "fulfilled" /\ ~WellFormed(upstream[i])

\* One invocation is waiting on a pending request while another has returned
\* the fallback prompt after its request was rejected.
C9_Witness ==
    \E i \in Slots :
        /\ Smart(i) /\ pc[i] = "awaiting" /\ upstream[i].state = "pending"
        /\ Smart(Other(i)) /\ Returned(Other(i)) /\ path[Other(i)] = "static"
        /\ CallThrew(upstream[Other(i)])

\* The invocations of generateSmartPrompt alone, for one unknown event and the
\* empty industry: progress does not depend on what the strings say.
FairNext ==
    \/ \E i \in Slots, b \in StyleContexts : CallSmart(i, <<"Pongal">>, << >>, b)
    \/ \E i \in Slots, o \in Outcomes : UpstreamSettle(i, o)
    \/ \E i \in Slots : Resume(i)
    \/ \E i \in Slots : Collect(i)

\* The upstream call of every request eventually resolves or rejects, and the
\* event loop runs a continuation whose promise has settled.
FairSpec ==
    /\ Init
    /\ [][FairNext]_vars
    /\ \A i \in Slots : WF_vars(\E o \in Outcomes : UpstreamSettle(i, o))
    /\ \A i \in Slots : WF_vars(Resume(i))

\* C10: if the upstream call eventually resolves or rejects, every invocation
\* of generateSmartPrompt eventually returns a prompt, having made at most one
\* upstream request and at most one pass through the fallback.
C10_EventuallyReturns ==
    /\ \A i \in Slots : (Smart(i) /\ pc[i] = "awaiting") ~> (Smart(i) /\ Returned(i))
    /\ [](\A i \in Slots : requests[i] <= 1 /\ fallbacks[i] <= 1)

\* An invocation has returned through the fallback: one request, one pass.
C10_Witness ==
    \E i \in Slots :
        /\ Smart(i) /\ Returned(i)
        /\ requests[i] = 1 /\ fallbacks[i] = 1
        /\ upstream[i].state = "fulfilled"

\* The optional style clause: present for a non-empty brand style.
OptionalStyleClause(b) ==
    IF b.t = "string" /\ b.s # << >> THEN <<" Style: ">> \o b.s ELSE << >>

\* table[key] after defaulting: the entry of the key, else the named default.
Defaulted(table, key, default) ==
    IF key \in DOMAIN table THEN table[key].s ELSE table[default].s

\* table[key] || table[default] as a plain object answers it: the entry of the
\* key, else the member of that name inherited from Object.prototype, else the
\* named default.
LookedUp(table, key, default) ==
    IF key \in DOMAIN table THEN table[key].s
    ELSE IF key \in DOMAIN ObjectPrototype THEN ObjectPrototype[key].s
    ELSE table[default].s

----------------------------------------------------------------------------
(* The profiles table and upsert_profile_logo
   (docs/MIGRATION-USER-PREFERENCES.sql, the database after the script ran) *)

MaxStatements == 3

\* auth.users: every id a profile may reference, and every caller.
Uids == {"u1", "u2"}

\* Argument lists: each optional argument both given and left NULL.
UpsertArgs ==
    {<<"a@x.io", NULL, NULL>>, <<NULL, "education", NULL>>,
     <<"b@x.io", "education", "logo.png">>}

UpsertCalls ==
    {[p_user_id |-> id, p_email |-> a[1], p_industry_type |-> a[2],
      p_logo_url |-> a[3]] : id \in Uids, a \in UpsertArgs}

\* COALESCE(a, b): the first argument that is not NULL.
Coalesce(a, b) == IF a # NULL THEN a ELSE b

\* The row INSERT ... VALUES builds: the four listed columns from the
\* arguments, the timestamps from their DEFAULT, every other column NULL.
InsertedRow(call, ts) ==
    [id |-> call.p_user_id, email |-> call.p_email, full_name |-> NULL,
     industry_type |-> call.p_industry_type, brand_logo_url |-> call.p_logo_url,
     created_at |-> ts, updated_at |-> ts]

\* BEFORE UPDATE trigger update_profiles_updated_at.
update_profiles_updated_at(new, ts) == [new EXCEPT !.updated_at = ts]

\* DO UPDATE SET of the conflicting row, then the BEFORE UPDATE trigger.
ConflictUpdatedRow(old, call, ts) ==
    update_profiles_updated_at(
        [old EXCEPT !.email = Coalesce(call.p_email, old.email),
                    !.industry_type = Coalesce(call.p_industry_type, old.industry_type),
                    !.brand_logo_url = Coalesce(call.p_logo_url, old.brand_logo_url),
                    !.updated_at = ts],
        ts)

\* The table INSERT ... ON CONFLICT (id) DO UPDATE leaves when it runs.
InsertOnConflict(table, call, ts) ==
    LET conflicting == {r \in table : r.id = call.p_user_id}
    IN  IF conflicting = {}
        THEN table \cup {InsertedRow(call, ts)}
        ELSE (table \ conflicting)
                 \cup {ConflictUpdatedRow(r, call, ts) : r \in conflicting}

\* RETURNS TABLE (...) declares these names as PL/pgSQL variables of the body.
OutParameters == {"id", "email", "industry_type", "brand_logo_url"}

\* Unqualified column references of the statement: the conflict target.
\* (The INSERT column list and the SET targets are names, not references;
\* every other reference is qualified by EXCLUDED or profiles.)
UnqualifiedColumnRefs == {"id"}

\* The body's one statement has a RETURNING clause and neither INTO nor
\* RETURN QUERY in front of it.
HasDestination == FALSE

\* An upsert that inserts and handles no conflict.
upsert_profile_logo_plainInsert(table, call, ts) ==
    [sqlstate |-> "00000", table |-> table \cup {InsertedRow(call, ts)},
     rows |-> {call.p_user_id}]

\* What a call of the function does to the table and hands to its caller.
\* PL/pgSQL (variable_conflict = error, the default) rejects a reference that
\* names both a variable and a column when it plans the statement (SQLSTATE
\* 42702), and rejects rows returned by a statement without a destination
\* after running it (42601); an error undoes the statement.
upsert_profile_logo(table, call, ts) ==
    IF UnqualifiedColumnRefs \cap OutParameters # {}
    THEN [sqlstate |-> "42702", table |-> table, rows |-> {}]
    ELSE IF ~HasDestination
    THEN [sqlstate |-> "42601", table |-> table, rows |-> {}]
    ELSE [sqlstate |-> "00000", table |-> InsertOnConflict(table, call, ts),
          rows |-> {call.p_user_id}]

PolicyUsing_everyRow(uid, row) == TRUE

\* Row level security: the USING expression of the SELECT and UPDATE policies
\* and the WITH CHECK expression of the INSERT policy, auth.uid() = id.
PolicyUsing(uid, row) == uid = row.id

PolicyWithCheck(uid, row) == uid = row.id

Running(s) == txn[s].pc = "running"

Completed(s) == txn[s].pc \in {"returned", "raised"}

\* A session calls upsert_profile_logo on behalf of user actor.  The function
\* is SECURITY DEFINER and EXECUTE is granted to authenticated, so any caller
\* may pass any id.
CallUpsert(s, actor, call) ==
    /\ ~Running(s)
    /\ now < MaxStatements
    /\ LET overlaps == \E t \in Sessions \ {s} :
                          Running(t) /\ txn[t].call.p_user_id = call.p_user_id
       IN  txn' = [t \in Sessions |->
                     IF t = s
                     THEN [pc |-> "running", actor |-> actor, call |-> call,
                           ts |-> now + 1, concurrent |-> overlaps,
                           sqlstate |-> "none"]
                     ELSE IF Running(t) /\ txn[t].call.p_user_id = call.p_user_id
                     THEN [txn[t] EXCEPT !.concurrent = TRUE]
                     ELSE txn[t]]
    /\ now' = now + 1
    /\ UNCHANGED <<profiles, lastUpsert, access>>
    /\ UNCHANGED DbRest

\* The call ends: with the function's rows, or with its error.
EndUpsert(s) ==
    /\ Running(s)
    /\ LET done == upsert_profile_logo(profiles, txn[s].call, txn[s].ts)
       IN  /\ profiles' = done.table
           /\ txn' = [txn EXCEPT ![s].pc = IF done.sqlstate = "00000"
                                           THEN "returned" ELSE "raised",
                                 ![s].sqlstate = done.sqlstate]
           /\ access' = [actor |-> txn[s].actor, via |-> "upsert_profile_logo",
                         ids |-> done.rows]
    /\ lastUpsert' = [kind |-> "upsert", call |-> txn[s].call]
    /\ UNCHANGED now
    /\ UNCHANGED DbRest

\* SELECT * FROM profiles as role authenticated: the rows the policy shows.
SelectProfiles(actor) ==
    /\ now < MaxStatements
    /\ now' = now + 1
    /\ access' = [actor |-> actor, via |-> "select",
                  ids |-> {r.id : r \in {q \in profiles : PolicyUsing(actor, q)}}]
    /\ UNCHANGED <<profiles, txn, lastUpsert>>
    /\ UNCHANGED DbRest

\* INSERT INTO profiles (id, email) as role authenticated: refused unless the
\* new row passes WITH CHECK and the primary key is free.
InsertProfile(actor, id, email) ==
    /\ now < MaxStatements
    /\ now' = now + 1
    /\ LET row == InsertedRow([NoCall EXCEPT !.p_user_id = id, !.p_email = email],
                              now + 1)
           accepted == /\ PolicyWithCheck(actor, row)
                       /\ \A r \in profiles : r.id # id
       IN  /\ profiles' = IF accepted THEN profiles \cup {row} ELSE profiles
           /\ access' = [actor |-> actor, via |-> "insert",
                         ids |-> IF accepted THEN {id} ELSE {}]
           /\ lastUpsert' = IF accepted THEN NoUpsert ELSE lastUpsert
    /\ UNCHANGED txn
    /\ UNCHANGED DbRest

\* UPDATE profiles SET <column> = <value> WHERE id = <id> as role
\* authenticated: the rows the policy shows, then the BEFORE UPDATE trigger.
UpdateProfile(actor, id, column, value) ==
    /\ now < MaxStatements
    /\ now' = now + 1
    /\ LET hit == {r \in profiles : r.id = id /\ PolicyUsing(actor, r)}
       IN  /\ profiles' = (profiles \ hit)
                 \cup {update_profiles_updated_at([r EXCEPT ![column] = value],
                                                  now + 1) : r \in hit}
           /\ access' = [actor |-> actor, via |-> "update",
                         ids |-> {r.id : r \in hit}]
           /\ lastUpsert' = IF hit # {} THEN NoUpsert ELSE lastUpsert
    /\ UNCHANGED txn
    /\ UNCHANGED DbRest

ColumnValues ==
    {<<"industry_type", "education">>, <<"full_name", "Asha">>}

DbNext ==
    \/ \E s \in Sessions, actor \in Uids, call \in UpsertCalls :
           CallUpsert(s, actor, call)
    \/ \E s \in Sessions : EndUpsert(s)
    \/ \E actor \in Uids : SelectProfiles(actor)
    \/ \E actor \in Uids, id \in Uids : InsertProfile(actor, id, "a@x.io")
    \/ \E actor \in Uids, id \in Uids, cv \in ColumnValues :
           UpdateProfile(actor, id, cv[1], cv[2])

DbRestIdle ==
    PromptIdle /\ MigIdle /\ HookIdle /\ WrapperIdle /\ CallbackIdle /\ SignUpIdle

\* The database right after the migration ran on a project without profiles.
DbInit == DbIdle /\ DbRestIdle

SpecDb == DbInit /\ [][DbNext]_vars


----------------------------------------------------------------------------
(* Properties of the profiles table *)

AtMostOneRowPerId == \A r \in profiles : \A q \in profiles : r.id = q.id => r = q

\* The table without its updated_at column.
StripUpdatedAt(table) ==
    {[id |-> r.id, email |-> r.email, full_name |-> r.full_name,
      industry_type |-> r.industry_type, brand_logo_url |-> r.brand_logo_url,
      created_at |-> r.created_at] : r \in table}

\* Session s ends a call whose arguments are those of the call that ended
\* last, with no write to the table in between.
RepeatsLastUpsert(s) ==
    /\ Running(s)
    /\ ~Running(s)'
    /\ lastUpsert = [kind |-> "upsert", call |-> txn[s].call]

RowsOf(id) == {r \in profiles : r.id = id}

\* C14: once two overlapping calls of upsert_profile_logo for one id have
\* ended, both have succeeded and the table holds exactly one row for the id.
C14_ConcurrentUpsertsBothSucceed ==
    \A s \in Sessions : \A t \in Sessions \ {s} :
        (/\ Completed(s) /\ Completed(t)
         /\ txn[s].concurrent /\ txn[t].concurrent
         /\ txn[s].call.p_user_id = txn[t].call.p_user_id)
        => /\ txn[s].pc = "returned"
           /\ txn[t].pc = "returned"
           /\ Cardinality(RowsOf(txn[s].call.p_user_id)) = 1


----------------------------------------------------------------------------
(* The migration script (docs/MIGRATION-USER-PREFERENCES.sql) *)

MaxRuns == 2

\* The columns of CREATE TABLE IF NOT EXISTS public.profiles.
ProfileColumns ==
    {"id", "email", "full_name", "brand_name", "brand_description",
     "brand_logo_url", "industry_type", "created_at", "updated_at"}

\* The columns step 2 adds to a table that lacks them.
AddedColumns == {"industry_type", "brand_logo_url"}

PolicyNames ==
    {"Users can view their own profile", "Users can update their own profile",
     "Users can insert their own profile"}

IndexNames == {"idx_profiles_industry_type", "idx_profiles_email"}

GrantsMade ==
    {<<"ALL", "profiles", "authenticated">>, <<"ALL", "profiles", "service_role">>,
     <<"EXECUTE", "upsert_profile_logo", "authenticated">>,
     <<"EXECUTE", "upsert_profile_logo", "service_role">>}

\* The statements of the script, in the order of the file.
Script ==
    << [op |-> "create_table", arg |-> "profiles"],
       [op |-> "add_column", arg |-> "industry_type"],
       [op |-> "add_column", arg |-> "brand_logo_url"],
       [op |-> "create_function", arg |-> "update_profiles_updated_at"],
       [op |-> "drop_trigger", arg |-> "update_profiles_updated_at"],
       [op |-> "create_trigger", arg |-> "update_profiles_updated_at"],
       [op |-> "create_function", arg |-> "upsert_profile_logo"],
       [op |-> "enable_rls", arg |-> "profiles"],
       [op |-> "drop_policy", arg |-> "Users can view their own profile"],
       [op |-> "drop_policy", arg |-> "Users can update their own profile"],
       [op |-> "drop_policy", arg |-> "Users can insert their own profile"],
       [op |-> "create_policy", arg |-> "Users can view their own profile"],
       [op |-> "create_policy", arg |-> "Users can update their own profile"],
       [op |-> "create_policy", arg |-> "Users can insert their own profile"],
       [op |-> "grant", arg |-> <<"ALL", "profiles", "authenticated">>],
       [op |-> "grant", arg |-> <<"ALL", "profiles", "service_role">>],
       [op |-> "grant", arg |-> <<"EXECUTE", "upsert_profile_logo", "authenticated">>],
       [op |-> "grant", arg |-> <<"EXECUTE", "upsert_profile_logo", "service_role">>],
       [op |-> "create_index", arg |-> "idx_profiles_industry_type"],
       [op |-> "create_index", arg |-> "idx_profiles_email"] >>

\* A row of a table with the given columns: one value in every column.
RowOver(columns, value) == [c \in columns |-> IF c = "id" THEN "u1" ELSE value]

\* CREATE TABLE public.profiles (...) on a database without the table.
CreatedTable(sch) == [sch EXCEPT !.exists = TRUE, !.columns = ProfileColumns]

\* DROP TABLE and CREATE TABLE: a script that rebuilds the table.
CreateTable_rebuilds(sch) == [CreatedTable(sch) EXCEPT !.rows = {}]

\* CREATE TABLE IF NOT EXISTS: nothing when the table exists.
CreateTableIfNotExists(sch) == IF sch.exists THEN sch ELSE CreatedTable(sch)

\* ALTER TABLE ... ADD COLUMN c TEXT and COMMENT ON COLUMN: every row gets
\* NULL in the new column.
AddColumn(sch, c) ==
    [sch EXCEPT !.columns = @ \cup {c},
                !.rows = {[k \in DOMAIN r \cup {c} |->
                              IF k \in DOMAIN r THEN r[k] ELSE NULL] : r \in @},
                !.comments = @ \cup {c}]

\* DO $$ IF NOT EXISTS (SELECT 1 FROM information_schema.columns ...) THEN ...
AddColumnIfMissing(sch, c) == IF c \in sch.columns THEN sch ELSE AddColumn(sch, c)

\* The objects of the schema, without the rows.
Shape(sch) ==
    [exists |-> sch.exists, columns |-> sch.columns, comments |-> sch.comments,
     functions |-> sch.functions, triggers |-> sch.triggers, rls |-> sch.rls,
     policies |-> sch.policies, grants |-> sch.grants, indexes |-> sch.indexes]

AtStatement(op) ==
    /\ mstep \in DOMAIN Script
    /\ Script[mstep].op = op
    /\ ~merror

\* The statement ran: on to the next one, or the run is complete.
Advance(sch) ==
    /\ schema' = sch
    /\ merror' = FALSE
    /\ IF mstep < Len(Script)
       THEN /\ mstep' = mstep + 1
            /\ UNCHANGED <<runs, afterFirst>>
       ELSE /\ mstep' = 0
            /\ runs' = runs + 1
            /\ afterFirst' = IF runs = 0 THEN Shape(sch) ELSE afterFirst
    /\ UNCHANGED startRows
    /\ UNCHANGED MigRest

\* The statement raised: the run stops there.
Fail ==
    /\ merror' = TRUE
    /\ UNCHANGED <<schema, mstep, runs, afterFirst, startRows>>
    /\ UNCHANGED MigRest

\* Someone runs the script (again).
StartRun ==
    /\ mstep = 0
    /\ ~merror
    /\ runs < MaxRuns
    /\ mstep' = 1
    /\ UNCHANGED <<schema, runs, afterFirst, startRows, merror>>
    /\ UNCHANGED MigRest

\* STEP 1
CreateTable ==
    /\ AtStatement("create_table")
    /\ Advance(CreateTableIfNotExists(schema))

\* STEP 2
AddColumnStep ==
    /\ AtStatement("add_column")
    /\ Advance(AddColumnIfMissing(schema, Script[mstep].arg))

\* STEPS 3 and 5: CREATE OR REPLACE FUNCTION
CreateOrReplaceFunction ==
    /\ AtStatement("create_function")
    /\ Advance([schema EXCEPT !.functions = @ \cup {Script[mstep].arg}])

\* STEP 4: DROP TRIGGER IF EXISTS
DropTriggerIfExists ==
    /\ AtStatement("drop_trigger")
    /\ Advance([schema EXCEPT !.triggers = @ \ {Script[mstep].arg}])

\* STEP 4: CREATE TRIGGER raises when the trigger exists.
CreateTrigger ==
    /\ AtStatement("create_trigger")
    /\ IF Script[mstep].arg \in schema.triggers
       THEN Fail
       ELSE Advance([schema EXCEPT !.triggers = @ \cup {Script[mstep].arg}])

\* STEP 6: ALTER TABLE ... ENABLE ROW LEVEL SECURITY
EnableRowLevelSecurity ==
    /\ AtStatement("enable_rls")
    /\ Advance([schema EXCEPT !.rls = TRUE])

\* STEP 6: DROP POLICY IF EXISTS
DropPolicyIfExists ==
    /\ AtStatement("drop_policy")
    /\ Advance([schema EXCEPT !.policies = @ \ {Script[mstep].arg}])

\* STEP 6: CREATE POLICY raises when the policy exists.
CreatePolicy ==
    /\ AtStatement("create_policy")
    /\ IF Script[mstep].arg \in schema.policies
       THEN Fail
       ELSE Advance([schema EXCEPT !.policies = @ \cup {Script[mstep].arg}])

\* STEP 7: GRANT
Grant ==
    /\ AtStatement("grant")
    /\ Advance([schema EXCEPT !.grants = @ \cup {Script[mstep].arg}])

\* STEP 8: CREATE INDEX IF NOT EXISTS
CreateIndexIfNotExists ==
    /\ AtStatement("create_index")
    /\ Advance([schema EXCEPT !.indexes = @ \cup {Script[mstep].arg}])

MigNext ==
    \/ StartRun
    \/ CreateTable
    \/ AddColumnStep
    \/ CreateOrReplaceFunction
    \/ DropTriggerIfExists
    \/ CreateTrigger
    \/ EnableRowLevelSecurity
    \/ DropPolicyIfExists
    \/ CreatePolicy
    \/ Grant
    \/ CreateIndexIfNotExists

\* A table of an earlier version of the project: some of the two columns
\* missing, with or without the objects of an earlier run of the script.
EarlierTable(cols, rows, migrated) ==
    [exists |-> TRUE, columns |-> cols, rows |-> rows, comments |-> {},
     functions |-> IF migrated THEN {"update_profiles_updated_at",
                                        "upsert_profile_logo"} ELSE {},
     triggers |-> IF migrated THEN {"update_profiles_updated_at"} ELSE {},
     rls |-> migrated,
     policies |-> IF migrated THEN PolicyNames ELSE {},
     grants |-> IF migrated THEN GrantsMade ELSE {},
     indexes |-> IF migrated /\ AddedColumns \subseteq cols
                 THEN IndexNames ELSE {}]

EarlierTables ==
    UNION {{EarlierTable(cols, rows, migrated) :
                rows \in {{}, {RowOver(cols, "v")}, {RowOver(cols, NULL)}},
                migrated \in BOOLEAN} :
           cols \in {(ProfileColumns \ AddedColumns) \cup a :
                        a \in SUBSET AddedColumns}}

StartingSchemas == {NoTable} \cup EarlierTables

MigRestIdle ==
    PromptIdle /\ DbIdle /\ HookIdle /\ WrapperIdle /\ CallbackIdle /\ SignUpIdle

MigInit ==
    /\ schema \in StartingSchemas
    /\ mstep = 0
    /\ runs = 0
    /\ afterFirst = NoShape
    /\ startRows = schema.rows
    /\ merror = FALSE
    /\ MigRestIdle

SpecMigration == MigInit /\ [][MigNext]_vars

\* Every row the table held before the first run is still there with the
\* values it had, and no row was added or removed.
RowsKept ==
    /\ Cardinality(schema.rows) = Cardinality(startRows)
    /\ \A r \in startRows :
           \E q \in schema.rows : \A c \in DOMAIN r : q[c] = r[c]

\* C15: no statement of the script fails, whatever schema it starts on and
\* however often it runs; after each complete run the columns, comments,
\* functions, trigger, policies, grants and indexes are those the first run
\* left, all of the script's objects exist, and at every point the rows that
\* were there before are unchanged.
C15_MigrationIdempotentKeepsData ==
    /\ ~merror
    /\ RowsKept
    /\ (mstep = 0 /\ runs >= 1) =>
           /\ Shape(schema) = afterFirst
           /\ schema.columns = ProfileColumns
           /\ schema.policies = PolicyNames
           /\ schema.indexes = IndexNames
           /\ schema.triggers = {"update_profiles_updated_at"}
           /\ schema.functions = {"update_profiles_updated_at", "upsert_profile_logo"}

\* The script ran twice on a table that lacked both columns and held a row.
C15_Witness ==
    /\ mstep = 0
    /\ runs = 2
    /\ startRows # {}
    /\ \A r \in startRows : AddedColumns \cap DOMAIN r = {}
    /\ \E q \in schema.rows : q["industry_type"] = NULL /\ q["full_name"] = "v"


----------------------------------------------------------------------------
(* The useBrandReady hook (lib/prompt-engine.ts, lines 122-191) *)

\* The users that can be logged in.
Users == {"u1", "u2"}

\* What GET /api/profiles/<id> can come back with: a response that is not
\* OK, a rejected fetch or json(), or a profile with this industry_type.
NotOk == [kind |-> "not_ok"]

Thrown == [kind |-> "thrown"]

Profile(industry_type) == [kind |-> "profile", industry_type |-> industry_type]

IndustryTypes == {Undefined, Null, JStr(<< >>), JStr(<<"education">>)}

FetchOutcomes == {NotOk, Thrown} \cup {Profile(i) : i \in IndustryTypes}

\* Ready with any string as industry_type, the empty one included.
BrandReady_anyString(profile) == profile.industry_type.t = "string"

\* const ready = !!profile.industry_type
BrandReady(profile) == Truthy(profile.industry_type)

\* What checkBrandReady hands to setIsReady.
ReadyAfter(outcome) ==
    IF outcome.kind = "profile" THEN BrandReady(outcome) ELSE FALSE

\* What the effect does to isReady: only the no-user branch sets it.
EffectIsReady(u, l, ready) == IF ~l /\ u = NoUser THEN FALSE ELSE ready

\* What the effect does to loading: true while auth loads, false without a
\* user, and left as it is when a check starts.
EffectLoading(u, l, was) ==
    IF l THEN TRUE ELSE IF u = NoUser THEN FALSE ELSE was

StartsCheck(u, l) == ~l /\ u # NoUser

FreeRequests(reqs) == {k \in RequestIds : reqs[k] = NoFetch}

\* The requests issued by effect runs before the current one go on.
Outdated(reqs) ==
    [k \in RequestIds |-> IF reqs[k] = NoFetch THEN NoFetch
                          ELSE [reqs[k] EXCEPT !.stale = TRUE]]

\* useAuth() hands the hook a new user or loading flag: the cleanup of the
\* previous effect run removes the listener, and the effect runs again.
HookAuthChange(u, l) ==
    /\ <<u, l>> # <<user, authLoading>>
    /\ StartsCheck(u, l) => FreeRequests(fetches) # {}
    /\ user' = u
    /\ authLoading' = l
    /\ isReady' = EffectIsReady(u, l, isReady)
    /\ loading' = EffectLoading(u, l, loading)
    /\ listening' = StartsCheck(u, l)
    /\ fetches' =
           IF StartsCheck(u, l)
           THEN LET k == CHOOSE k \in FreeRequests(fetches) : TRUE
                IN  [Outdated(fetches) EXCEPT ![k] = [for |-> u, stale |-> FALSE]]
           ELSE Outdated(fetches)
    /\ eventSeen' = FALSE
    /\ hookLast' = [kind |-> "effect"]
    /\ UNCHANGED HookRest

\* A fetch in flight comes back and checkBrandReady runs to its end.  No
\* effect cleanup cancels it, so it may belong to an earlier effect run.
HookFetchComplete(k, outcome) ==
    /\ fetches[k] # NoFetch
    /\ isReady' = ReadyAfter(outcome)
    /\ loading' = FALSE
    /\ fetches' = [fetches EXCEPT ![k] = NoFetch]
    /\ hookLast' = [kind |-> "fetch", for |-> fetches[k].for,
                    stale |-> fetches[k].stale, outcome |-> outcome,
                    eventSeen |-> eventSeen]
    /\ UNCHANGED <<user, authLoading, listening, eventSeen>>
    /\ UNCHANGED HookRest

\* A userProfileReady event reaches window: handleProfileReady, if registered.
UserProfileReady ==
    /\ listening
    /\ isReady' = TRUE
    /\ eventSeen' = TRUE
    /\ hookLast' = [kind |-> "event"]
    /\ UNCHANGED <<user, authLoading, loading, listening, fetches>>
    /\ UNCHANGED HookRest

HookNext ==
    \/ \E u \in Users \cup {NoUser}, l \in BOOLEAN : HookAuthChange(u, l)
    \/ \E k \in RequestIds, outcome \in FetchOutcomes : HookFetchComplete(k, outcome)
    \/ UserProfileReady

HookRestIdle ==
    PromptIdle /\ DbIdle /\ MigIdle /\ WrapperIdle /\ CallbackIdle /\ SignUpIdle

HookInit == HookIdle /\ HookRestIdle

SpecHook == HookInit /\ [][HookNext]_vars

CurrentCheckInFlight ==
    \E k \in RequestIds : fetches[k] # NoFetch /\ ~fetches[k].stale

\* C16: after a userProfileReady event was delivered, and until user or
\* authLoading changes, isReady is true.
C16_ReadyStaysAfterEvent == eventSeen => isReady

\* C17: when a profile check for the current user completes and no
\* userProfileReady event has been received, isReady is true exactly if the
\* response was OK and carried a non-empty industry_type, and loading is false.
C17_CheckDecidesReady ==
    (/\ hookLast.kind = "fetch"
     /\ hookLast.for = user
     /\ ~hookLast.eventSeen
     /\ ~eventSeen)
    => /\ isReady <=> /\ hookLast.outcome.kind = "profile"
                      /\ hookLast.outcome.industry_type.t = "string"
                      /\ hookLast.outcome.industry_type.s # << >>
       /\ ~loading

\* A check of the current user came back with an empty industry_type before
\* any userProfileReady event.
C17_Witness ==
    /\ hookLast.kind = "fetch"
    /\ hookLast.for = user
    /\ ~hookLast.stale
    /\ ~hookLast.eventSeen
    /\ hookLast.outcome = Profile(JStr(<< >>))
    /\ ~isReady
    /\ ~loading

\* C18: loading is true whenever auth is loading or a profile check of the
\* current effect run is in flight.
C18_LoadingWhileUndetermined ==
    (authLoading \/ CurrentCheckInFlight) => loading


----------------------------------------------------------------------------
(* BrandOnboardingWrapper (components/brand-onboarding-wrapper) *)

\* user.email of the session user; a user signed up without one has none.
EmailOf(u) == IF u = "u1" THEN JStr(<<"u1@x.io">>) ELSE Undefined

WrapperProfile(industry_type, brand_logo_url, email) ==
    [kind |-> "profile", industry_type |-> industry_type,
     brand_logo_url |-> brand_logo_url, email |-> email]

LogoUrls == {Null, JStr(<<"logo.png">>)}

ProfileEmails == {Null, JStr(<<"p@x.io">>)}

CheckOutcomes ==
    {NotOk, Thrown}
        \cup {WrapperProfile(i, l, e) :
                  i \in IndustryTypes, l \in LogoUrls, e \in ProfileEmails}

\* The rule of the comments at lines 4 and 44: industry_type OR brand_logo_url.
NeedsOnboarding_orLogoMissing(profile) ==
    ~Truthy(profile.industry_type) \/ ~Truthy(profile.brand_logo_url)

\* const needsOnboarding = !profile.industry_type
NeedsOnboarding(profile) == ~Truthy(profile.industry_type)

\* A check that closes the modal when the response is not OK.
CheckShowModal_closesOnFailure(outcome, was) ==
    IF outcome.kind = "profile" THEN NeedsOnboarding(outcome) ELSE FALSE

\* What checkUserProfile leaves in showModal: a response that is not OK and
\* a caught error change nothing.
CheckShowModal(outcome, was) ==
    IF outcome.kind = "profile" THEN NeedsOnboarding(outcome) ELSE was

CheckIsReady(outcome, was) ==
    IF outcome.kind = "profile" THEN ~NeedsOnboarding(outcome) ELSE was

\* setUserEmail(profile.email || user.email || null), user being the one the
\* check was started for.
CheckUserEmail(outcome, u, was) ==
    IF outcome.kind = "profile"
    THEN OrElse(OrElse(outcome.email, EmailOf(u)), Null)
    ELSE was

\* What the component renders: nothing, or the modal with isOpen = showModal.
Render(u, l, show) ==
    IF u = NoUser \/ l THEN "null" ELSE IF show THEN "open" ELSE "closed"

\* useAuth() hands the wrapper a new user or loading flag and the effect runs.
WrapperAuthChange(u, l) ==
    /\ <<u, l>> # <<wUser, wAuthLoading>>
    /\ StartsCheck(u, l) => FreeRequests(checks) # {}
    /\ wUser' = u
    /\ wAuthLoading' = l
    /\ showModal' = IF l \/ u = NoUser THEN FALSE ELSE showModal
    /\ checks' =
           IF StartsCheck(u, l)
           THEN LET k == CHOOSE k \in FreeRequests(checks) : TRUE
                IN  [Outdated(checks) EXCEPT ![k] = [for |-> u, stale |-> FALSE]]
           ELSE Outdated(checks)
    /\ wrapperLast' = [kind |-> "effect"]
    /\ onboarded' = NoUser
    /\ UNCHANGED <<userEmail, wIsReady>>
    /\ UNCHANGED WrapperRest

\* A check in flight comes back and checkUserProfile runs to its end.  The
\* effect has no cleanup, so the check may belong to an earlier effect run.
WrapperCheckComplete(k, outcome) ==
    /\ checks[k] # NoFetch
    /\ showModal' = CheckShowModal(outcome, showModal)
    /\ wIsReady' = CheckIsReady(outcome, wIsReady)
    /\ userEmail' = CheckUserEmail(outcome, checks[k].for, userEmail)
    /\ checks' = [checks EXCEPT ![k] = NoFetch]
    /\ wrapperLast' = [kind |-> "check", for |-> checks[k].for,
                       stale |-> checks[k].stale, outcome |-> outcome]
    /\ UNCHANGED <<wUser, wAuthLoading, onboarded>>
    /\ UNCHANGED WrapperRest

\* The open modal calls onComplete: handleOnboardingComplete, which also
\* dispatches userProfileReady.
OnboardingComplete ==
    /\ Render(wUser, wAuthLoading, showModal) = "open"
    /\ showModal' = FALSE
    /\ wIsReady' = TRUE
    /\ wrapperLast' = [kind |-> "complete", dispatched |-> <<"userProfileReady">>]
    /\ onboarded' = wUser
    /\ UNCHANGED <<wUser, wAuthLoading, userEmail, checks>>
    /\ UNCHANGED WrapperRest

WrapperNext ==
    \/ \E u \in Users \cup {NoUser}, l \in BOOLEAN : WrapperAuthChange(u, l)
    \/ \E k \in RequestIds, outcome \in CheckOutcomes : WrapperCheckComplete(k, outcome)
    \/ OnboardingComplete

WrapperRestIdle ==
    PromptIdle /\ DbIdle /\ MigIdle /\ HookIdle /\ CallbackIdle /\ SignUpIdle

WrapperInit == WrapperIdle /\ WrapperRestIdle

SpecWrapper == WrapperInit /\ [][WrapperNext]_vars

HasIndustry(outcome) ==
    outcome.industry_type.t = "string" /\ outcome.industry_type.s # << >>

ModalClosesUnderUser ==
    /\ showModal /\ ~showModal'
    /\ wUser # NoUser /\ wUser' = wUser
    /\ ~wAuthLoading /\ ~wAuthLoading'

\* C20: while the same user stays logged in with auth loaded, an open modal
\* is closed only by onComplete or by a profile check that found
\* industry_type set.
C20_ModalClosedOnlyByCompletion ==
    [][ModalClosesUnderUser
          => \/ wrapperLast'.kind = "complete"
             \/ /\ wrapperLast'.kind = "check"
                /\ wrapperLast'.outcome.kind = "profile"
                /\ HasIndustry(wrapperLast'.outcome)]_vars

\* The modal is open for the logged-in user and a check that failed has just
\* left it open.
C20_Witness ==
    /\ Render(wUser, wAuthLoading, showModal) = "open"
    /\ wrapperLast.kind = "check"
    /\ wrapperLast.outcome \in {NotOk, Thrown}


\* C21: once handleOnboardingComplete has run for the logged-in user, and
\* until useAuth() hands the wrapper another user or loading flag, the modal
\* is closed, whichever checks started earlier resolve meanwhile.
C21_ModalStaysClosedAfterCompletion ==
    (onboarded # NoUser /\ onboarded = wUser /\ ~wAuthLoading) => ~showModal


\* C22: while no user is logged in and auth has finished loading, isReady is
\* false, whichever fetches of earlier effect runs resolve meanwhile.
C22_NotReadyWithoutUser == (user = NoUser /\ ~authLoading) => ~isReady


----------------------------------------------------------------------------
(* AuthCallback (app/auth/callback): handleCallback *)

MaxCallbackRuns == 2

FlagValues == {NoItem, "true", "false"}

\* data.session.user: with or without an email, and without an id.
SessionUsers ==
    {[id |-> JStr(<<"u1">>), email |-> JStr(<<"u1@x.io">>)],
     [id |-> JStr(<<"u1">>), email |-> Undefined],
     [id |-> Undefined, email |-> Undefined]}

\* What createClient() and await supabase.auth.getSession() can give: a
\* session, no session, an error in the result, or a thrown error.
GetSessionOutcomes ==
    {[kind |-> "session", user |-> u] : u \in SessionUsers}
        \cup {[kind |-> "no_session"], [kind |-> "error"], [kind |-> "rejected"]}

ProfileIdRow == [t |-> "object", s |-> <<"id">>]

\* What the profile lookup can give: the row or null as data, an error in
\* the result (data null), or a thrown error.
LookupOutcomes(row) ==
    {[kind |-> "data", profile |-> IF row THEN ProfileIdRow ELSE Null],
     [kind |-> "error", profile |-> Null],
     [kind |-> "rejected", profile |-> Null]}

\* What fetch('/api/profiles', POST) can give: a thrown error, or a response
\* that is OK or not and whose json() resolves or rejects.
PostOutcomes ==
    {[kind |-> "rejected"]}
        \cup {[kind |-> "response", ok |-> ok, json |-> j] :
                  ok \in BOOLEAN, j \in {"parsed", "rejected"}}

\* A callback that takes a session whose user has no id for no session.
HasSession_requiresUserId(outcome) ==
    outcome.kind = "session" /\ Truthy(outcome.user.id)

\* if (error) throw error, then if (data.session): a thrown error, an error
\* in the result and a null session all end at '/login'.
HasSession(outcome) == outcome.kind = "session"

\* sessionStorage.getItem('is_new_signup') === 'true'
IsNewSignup(item) == item = "true"

\* existingProfile after the lookup: a thrown error leaves the initial null.
ExistingProfileAfter(outcome) ==
    IF outcome.kind = "rejected" THEN Null ELSE outcome.profile

\* profileData of the new signup branch.
NewSignupProfile(u) ==
    [id |-> u.id, email |-> OrElse(u.email, Null),
     subscription_plan |-> "free", free_images_generated |-> 0]

\* profileData of the non-signup branch.
MinimalProfile(u) == [id |-> u.id, email |-> OrElse(u.email, Null)]

\* The if / else if chain after the lookup.
ProfileBranch(u, isNew, existing) ==
    IF Truthy(u.id) /\ isNew THEN "new_signup"
    ELSE IF Truthy(u.id) /\ ~isNew /\ ~Truthy(existing) THEN "minimal"
    ELSE "none"

\* A run that removes the item on its way to '/login' too.
StorageAfter_alwaysRemoved(target, item) == NoItem

\* The item when the run redirects: removed before '/', untouched before
\* '/login'.
StorageAfter(target, item) == IF target = "/" THEN NoItem ELSE item

\* A run that goes to '/' only after a profile request that worked.
RedirectAfterProfile_blocking(failed) == IF failed THEN "/login" ELSE "/"

\* Where the session branch redirects once the profile step is over,
\* whether or not it failed.
RedirectAfterProfile(failed) == "/"

\* The end of the run: removeItem on the way to '/', then router.push.
Redirect(target, events) ==
    /\ is_new_signup' = StorageAfter(target, is_new_signup)
    /\ pushes' = Append(pushes, target)
    /\ cbPc' = "done"
    /\ cbTrace' = cbTrace \o events
                      \o (IF StorageAfter(target, "true") = NoItem
                          THEN <<"removeItem">> ELSE << >>)
                      \o <<"push">>

\* From the end of the lookup to the next await or to the redirect.
AfterLookup(u, isNew, existing, events) ==
    LET branch == ProfileBranch(u, isNew, existing)
    IN  IF branch = "none"
        THEN /\ Redirect(RedirectAfterProfile(FALSE), events)
             /\ UNCHANGED posts
        ELSE /\ posts' = Append(posts, IF branch = "new_signup"
                                       THEN NewSignupProfile(u)
                                       ELSE MinimalProfile(u))
             /\ cbPc' = "post"
             /\ cbTrace' = cbTrace \o events \o <<"POST">>
             /\ UNCHANGED <<is_new_signup, pushes>>

\* The effect calls handleCallback, which runs to await getSession().
StartCallback(row) ==
    /\ cbPc \in {"idle", "done"}
    /\ cbRuns < MaxCallbackRuns
    /\ cbPc' = "getSession"
    /\ cbRuns' = cbRuns + 1
    /\ flagAtStart' = is_new_signup
    /\ session' = NoSessionYet
    /\ isNewSignup' = FALSE
    /\ existingProfile' = Null
    /\ profileRow' = row
    /\ profileResponse' = NoResponseYet
    /\ posts' = << >>
    /\ pushes' = << >>
    /\ cbTrace' = <<"getSession">>
    /\ UNCHANGED is_new_signup
    /\ UNCHANGED CallbackRest

\* getSession() settles: to '/login', or on to the profile lookup.
GetSessionSettles(outcome) ==
    /\ cbPc = "getSession"
    /\ session' = outcome
    /\ IF ~HasSession(outcome)
       THEN /\ Redirect("/login", <<"getSession settled">>)
            /\ UNCHANGED <<isNewSignup, posts>>
       ELSE /\ isNewSignup' = IsNewSignup(is_new_signup)
            /\ IF outcome.kind = "session" /\ Truthy(outcome.user.id)
               THEN /\ cbPc' = "lookup"
                    /\ cbTrace' = cbTrace \o <<"getSession settled", "select">>
                    /\ UNCHANGED <<is_new_signup, posts, pushes>>
               ELSE AfterLookup(outcome.user, IsNewSignup(is_new_signup), Null,
                                <<"getSession settled">>)
    /\ UNCHANGED <<cbRuns, flagAtStart, existingProfile, profileRow, profileResponse>>
    /\ UNCHANGED CallbackRest

\* The profile lookup settles: on to a POST, or to the redirect.
LookupSettles(outcome) ==
    /\ cbPc = "lookup"
    /\ existingProfile' = ExistingProfileAfter(outcome)
    /\ AfterLookup(session.user, isNewSignup, ExistingProfileAfter(outcome),
                   <<"select settled">>)
    /\ UNCHANGED <<cbRuns, flagAtStart, session, isNewSignup, profileRow, profileResponse>>
    /\ UNCHANGED CallbackRest

\* fetch settles: a thrown error is caught, a response is read with json().
PostSettles(outcome) ==
    /\ cbPc = "post"
    /\ profileResponse' = outcome
    /\ IF outcome.kind = "rejected"
       THEN Redirect(RedirectAfterProfile(TRUE), <<"POST settled">>)
       ELSE /\ cbPc' = "json"
            /\ cbTrace' = cbTrace \o <<"POST settled", "json">>
            /\ UNCHANGED <<is_new_signup, pushes>>
    /\ UNCHANGED <<cbRuns, flagAtStart, session, isNewSignup, existingProfile, profileRow, posts>>
    /\ UNCHANGED CallbackRest

\* profileResponse.json() settles: logged either way, then the redirect.
JsonSettles ==
    /\ cbPc = "json"
    /\ Redirect(RedirectAfterProfile(~profileResponse.ok \/ profileResponse.json = "rejected"),
                <<"json settled">>)
    /\ UNCHANGED <<cbRuns, flagAtStart, session, isNewSignup, existingProfile,
                   profileRow, profileResponse, posts>>
    /\ UNCHANGED CallbackRest

CallbackNext ==
    \/ \E row \in BOOLEAN : StartCallback(row)
    \/ \E outcome \in GetSessionOutcomes : GetSessionSettles(outcome)
    \/ \E outcome \in LookupOutcomes(profileRow) : LookupSettles(outcome)
    \/ \E outcome \in PostOutcomes : PostSettles(outcome)
    \/ JsonSettles

CallbackRestIdle ==
    PromptIdle /\ DbIdle /\ MigIdle /\ HookIdle /\ WrapperIdle /\ SignUpIdle

\* The page is mounted; the sign-up modal may have left the item behind.
CallbackInit ==
    /\ cbPc = "idle"
    /\ cbRuns = 0
    /\ is_new_signup \in FlagValues
    /\ flagAtStart = is_new_signup
    /\ session = NoSessionYet
    /\ isNewSignup = FALSE
    /\ existingProfile = Null
    /\ profileRow = FALSE
    /\ profileResponse = NoResponseYet
    /\ posts = << >>
    /\ pushes = << >>
    /\ cbTrace = << >>
    /\ CallbackRestIdle

SpecCallback == CallbackInit /\ [][CallbackNext]_vars

RunEnded == cbPc = "done"

GotSession == session.kind = "session"

\* C23: a run in which getSession gave a session without error ends with
\* router.push('/'), also when the lookup failed, the POST came back not OK
\* or the POST threw.
C23_ProfileFailureDoesNotBlockLogin ==
    (RunEnded /\ GotSession) => pushes = <<"/">>

\* A run with a session whose lookup failed and whose POST threw ended at '/'.
C23_Witness ==
    /\ RunEnded
    /\ GotSession
    /\ profileRow /\ existingProfile = Null
    /\ profileResponse.kind = "rejected"
    /\ pushes = <<"/">>


Positions(e) == {i \in DOMAIN cbTrace : cbTrace[i] = e}

\* Every request the run issued has settled before position i.
AllSettledBefore(i) ==
    /\ \A e \in {"select", "POST", "json", "select settled", "POST settled",
                 "json settled"} : \A j \in Positions(e) : j < i
    /\ Cardinality(Positions("select")) = Cardinality(Positions("select settled"))
    /\ Cardinality(Positions("POST")) = Cardinality(Positions("POST settled"))
    /\ Cardinality(Positions("json")) = Cardinality(Positions("json settled"))

\* C24: a run removes is_new_signup only after its lookup and its POST, if
\* any, have settled, and right before it pushes '/'; a run that pushes
\* '/login' leaves the item as it found it.
C24_FlagClearedAfterAsyncWork ==
    /\ \A i \in Positions("removeItem") :
           /\ AllSettledBefore(i)
           /\ i + 1 \in Positions("push")
           /\ pushes = <<"/">>
    /\ pushes = <<"/">> => Positions("removeItem") # {} /\ is_new_signup = NoItem
    /\ (Positions("removeItem") = {} /\ cbPc \notin {"idle"})
           => is_new_signup = flagAtStart
    /\ pushes = <<"/login">>
           => Positions("removeItem") = {} /\ is_new_signup = flagAtStart

\* A new signup's run removed the item after its POST and its json() settled.
C24_Witness ==
    /\ RunEnded
    /\ flagAtStart = "true"
    /\ is_new_signup = NoItem
    /\ Positions("json settled") # {}
    /\ pushes = <<"/">>

HasPlanFields(body) ==
    "subscription_plan" \in DOMAIN body \/ "free_images_generated" \in DOMAIN body

\* C25: a run issues at most one POST; a body with subscription_plan and
\* free_images_generated only for a new signup and never for a user whose
\* profile row exists; the minimal body only for a login that is no signup
\* and found no profile.
C25_OnePostNeverOverExistingProfile ==
    /\ Len(posts) <= 1
    /\ \A i \in DOMAIN posts :
           IF HasPlanFields(posts[i])
           THEN isNewSignup /\ ~profileRow
           ELSE ~isNewSignup /\ existingProfile = Null

\* C26: a run that has ended has pushed exactly once, '/' if getSession gave
\* a session without error and '/login' otherwise; a run that has not ended
\* has not pushed.
C26_ExactlyOneRedirect ==
    /\ RunEnded => /\ Len(pushes) = 1
                   /\ pushes[1] = IF GotSession THEN "/" ELSE "/login"
    /\ ~RunEnded => pushes = << >>

\* Runs ended at '/login' after an error in the result of getSession.
C26_Witness ==
    /\ RunEnded
    /\ session.kind = "error"
    /\ pushes = <<"/login">>
    /\ cbRuns = 2


----------------------------------------------------------------------------
(* SimpleSignUpModal (components/simple-signup-modal): handleEmailSignUp *)

MaxSubmits == 2

MinPasswordLength == 6

\* A text of n characters.
Typed(n) == [i \in 1 .. n |-> "x"]

EmailInputs == {<< >>, <<"a@x.io">>}

PasswordInputs == {Typed(0), Typed(MinPasswordLength - 1), Typed(MinPasswordLength)}

\* An Error, or an error object of supabase, with its message.
ErrorWith(message) == [message |-> message]

\* What await supabase.auth.signUp can give: a thrown error, or a result
\* with an error, without a user, or with a user.
SignUpOutcomes ==
    {[kind |-> "rejected", thrown |-> ErrorWith(JStr(<<"Failed to fetch">>))],
     [kind |-> "result", error |-> ErrorWith(JStr(<<"User already registered">>)),
      user |-> Null],
     [kind |-> "result", error |-> ErrorWith(JStr(<< >>)), user |-> Null],
     [kind |-> "result", error |-> Null, user |-> Null],
     [kind |-> "result", error |-> Null, user |-> JStr(<<"u1">>)]}

\* What await fetch('/api/profiles') can give: a thrown error, an OK
\* response, or a response that is not OK, whose json() throws or gives
\* null, an object with an error text or an object without one.
SignUpPostOutcomes ==
    {[kind |-> "rejected", thrown |-> ErrorWith(JStr(<<"Failed to fetch">>))],
     [kind |-> "response", ok |-> TRUE, body |-> "none"]}
        \cup {[kind |-> "response", ok |-> FALSE, body |-> b] :
                  b \in {"not json", "null", "error text", "no error text"}}

\* if (!email || !password) ... if (password.length < 6): the message the
\* form is refused with, or null.
ValidationError(e, pw) ==
    IF e = << >> \/ pw = << >>
    THEN JStr(<<"Please enter email and password">>)
    ELSE IF Len(pw) < MinPasswordLength
    THEN JStr(<<"Password must be at least 6 characters">>)
    ELSE Null

\* What the try block throws after signUp, or null.
SignUpThrows(outcome) ==
    IF outcome.kind = "rejected" THEN outcome.thrown
    ELSE IF outcome.error # Null THEN outcome.error
    ELSE IF ~Truthy(outcome.user) THEN ErrorWith(JStr(<<"User creation failed">>))
    ELSE Null

\* A modal that takes every response of the profiles endpoint for a success.
PostThrows_acceptsAnyResponse(outcome) ==
    IF outcome.kind = "rejected" THEN outcome.thrown ELSE Null

\* What the try block throws after the POST, or null: json() of a response
\* that is not OK, then new Error(profileError.error || 'Failed to save profile').
PostThrows(outcome) ==
    IF outcome.kind = "rejected" THEN outcome.thrown
    ELSE IF outcome.ok THEN Null
    ELSE IF outcome.body = "not json"
    THEN ErrorWith(JStr(<<"Unexpected token">>))
    ELSE IF outcome.body = "null"
    THEN ErrorWith(JStr(<<"Cannot read properties of null">>))
    ELSE IF outcome.body = "error text"
    THEN ErrorWith(OrElse(JStr(<<"Email already in use">>),
                          JStr(<<"Failed to save profile">>)))
    ELSE ErrorWith(OrElse(Undefined, JStr(<<"Failed to save profile">>)))

\* setError(err.message || 'Sign up failed. Please try again.')
CaughtMessage(err) ==
    OrElse(err.message, JStr(<<"Sign up failed. Please try again.">>))

\* catch and finally.
SignUpFails(err) ==
    /\ suError' = CaughtMessage(err)
    /\ suLoading' = FALSE
    /\ suPc' = "done"

\* onChange of the email input, which is disabled while loading.
TypeEmail(e) ==
    /\ ~suLoading
    /\ suEmail' = e
    /\ UNCHANGED <<suPc, submits, suPassword, suLoading, suError, authResult,
                   suResponse, onSuccessCalls>>
    /\ UNCHANGED SignUpRest

\* onChange of the password input, which is disabled while loading.
TypePassword(pw) ==
    /\ ~suLoading
    /\ suPassword' = pw
    /\ UNCHANGED <<suPc, submits, suEmail, suLoading, suError, authResult,
                   suResponse, onSuccessCalls>>
    /\ UNCHANGED SignUpRest

\* The form is submitted (its button is disabled while loading): refused,
\* or on to await signUp.
SubmitSignUp ==
    /\ ~suLoading
    /\ suPc \in {"idle", "done"}
    /\ submits < MaxSubmits
    /\ submits' = submits + 1
    /\ authResult' = NoAuthResult
    /\ suResponse' = NoResponseYet
    /\ onSuccessCalls' = 0
    /\ IF ValidationError(suEmail, suPassword) # Null
       THEN /\ suError' = ValidationError(suEmail, suPassword)
            /\ suPc' = "done"
            /\ UNCHANGED suLoading
       ELSE /\ suLoading' = TRUE
            /\ suError' = Null
            /\ suPc' = "signUp"
    /\ UNCHANGED <<suEmail, suPassword>>
    /\ UNCHANGED SignUpRest

\* signUp settles: the error is caught, or the profile POST goes out.
SignUpSettles(outcome) ==
    /\ suPc = "signUp"
    /\ authResult' = outcome
    /\ IF SignUpThrows(outcome) # Null
       THEN SignUpFails(SignUpThrows(outcome))
       ELSE /\ suPc' = "post"
            /\ UNCHANGED <<suError, suLoading>>
    /\ UNCHANGED <<submits, suEmail, suPassword, suResponse, onSuccessCalls>>
    /\ UNCHANGED SignUpRest

\* The POST settles: onSuccess() after an OK response, the catch otherwise.
\* onSuccess may throw, which the same catch reports.
SignUpPostSettles(outcome, onSuccessThrows) ==
    /\ suPc = "post"
    /\ suResponse' = outcome
    /\ IF PostThrows(outcome) # Null
       THEN /\ SignUpFails(PostThrows(outcome))
            /\ UNCHANGED onSuccessCalls
       ELSE /\ onSuccessCalls' = onSuccessCalls + 1
            /\ IF onSuccessThrows
               THEN SignUpFails(ErrorWith(JStr(<<"onSuccess failed">>)))
               ELSE /\ suLoading' = FALSE
                    /\ suPc' = "done"
                    /\ UNCHANGED suError
    /\ UNCHANGED <<submits, suEmail, suPassword, authResult>>
    /\ UNCHANGED SignUpRest

SignUpNext ==
    \/ \E e \in EmailInputs : TypeEmail(e)
    \/ \E pw \in PasswordInputs : TypePassword(pw)
    \/ SubmitSignUp
    \/ \E outcome \in SignUpOutcomes : SignUpSettles(outcome)
    \/ \E outcome \in SignUpPostOutcomes, t \in BOOLEAN : SignUpPostSettles(outcome, t)

SignUpRestIdle ==
    PromptIdle /\ DbIdle /\ MigIdle /\ HookIdle /\ WrapperIdle /\ CallbackIdle

SignUpInit == SignUpIdle /\ SignUpRestIdle

SpecSignUp == SignUpInit /\ [][SignUpNext]_vars

SignUpGaveUser ==
    /\ authResult.kind = "result"
    /\ authResult.error = Null
    /\ authResult.user # Null

PostGaveOk == suResponse.kind = "response" /\ suResponse.ok

SignUpStepFailed == authResult # NoAuthResult /\ ~SignUpGaveUser

PostStepFailed == suResponse # NoResponseYet /\ ~PostGaveOk

\* C27: the email sign-up calls onSuccess only when signUp gave a user
\* without error and the profile POST came back OK; when either step has
\* failed, onSuccess has not been called and error holds a message.
C27_OnSuccessOnlyAfterBothSteps ==
    /\ onSuccessCalls > 0 => SignUpGaveUser /\ PostGaveOk
    /\ (SignUpStepFailed \/ PostStepFailed)
           => /\ onSuccessCalls = 0
              /\ suPc = "done"
              /\ suError.t = "string" /\ suError.s # << >>

\* signUp gave a user, the POST came back not OK with a body without error
\* text, and the modal shows the default message.
C27_Witness ==
    /\ SignUpGaveUser
    /\ suResponse.kind = "response" /\ ~suResponse.ok
    /\ suResponse.body = "no error text"
    /\ onSuccessCalls = 0
    /\ suError = JStr(<<"Failed to save profile">>)


\* C28: a call of upsert_profile_logo for an id that has a row leaves in
\* each of email, industry_type and brand_logo_url the argument if it is not
\* NULL and the previous value otherwise, and changes no other column but
\* updated_at.
C28_UpsertSetsGivenKeepsRest ==
    [][\A s \in Sessions :
           (Running(s) /\ ~Running(s)')
               => \A r \in RowsOf(txn[s].call.p_user_id) :
                      \E q \in profiles' :
                          q = [r EXCEPT
                                 !.email = Coalesce(txn[s].call.p_email, r.email),
                                 !.industry_type =
                                     Coalesce(txn[s].call.p_industry_type, r.industry_type),
                                 !.brand_logo_url =
                                     Coalesce(txn[s].call.p_logo_url, r.brand_logo_url),
                                 !.updated_at = q.updated_at]]_vars

============================================================================
